---- MODULE Spec2Model ----
(***************************************************************************)
(* Model of the AliExpress scraper (scraper.py): the retry loop of         *)
(* extract_aliexpress_product, the block classifier detect_recaptcha, the  *)
(* title / description / image extraction and the text and URL helpers.    *)
(*                                                                         *)
(* Text is modelled as a sequence of tokens: a token is a word, a          *)
(* whitespace character, a markup tag or a character reference.  URLs are  *)
(* sequences of tokens as well ("/" is one token).                         *)
(***************************************************************************)
EXTENDS Integers, Sequences, FiniteSets, TLC

VARIABLES
    max_retries,       \* argument of extract_aliexpress_product
    attempt,           \* loop variable of the retry loop (0 before the loop)
    pc,                \* position inside extract_aliexpress_product
    sessions,          \* every browser launched by the call, with its state
    log,               \* orchestration events of the call, in order
    steps,             \* page-level steps of the current attempt, in order
    outcomes,          \* how each finished attempt ended
    status,            \* "running", "returned" or "raised"
    result,            \* <<>> until the call returns, then <<value>>
    lastPage,          \* page state seen by the last detect_recaptcha call
    lastVerdict,       \* what that call returned
    selIdx,            \* index into title_selectors
    title,             \* local variable title
    description_text,  \* local variable description_text
    images,            \* local variable images
    collected,         \* URLs appended to images before de-duplication
    swallowed,         \* TRUE when the extraction handler caught an exception
    tabError,          \* TRUE when the Description-tab handler caught one
    arg,               \* input of a helper function checked on its own
    ret,               \* <<>> until the helper has run, then <<its value>>
    tasks,             \* the futures of one POST /scrape batch, by position
    tables,            \* committed rows of the three database tables
    txn,               \* the open transaction of an _upsert call, <<>> if none
    resp               \* what the last database operation did

vars == <<max_retries, attempt, pc, sessions, log, steps, outcomes, status,
          result, lastPage, lastVerdict, selIdx, title, description_text,
          images, collected, swallowed, tabError, arg, ret, tasks, tables,
          txn, resp>>

\* the variables outside one call of extract_aliexpress_product
others == <<arg, ret, tasks, tables, txn, resp>>

---------------------------------------------------------------------------
(* Bounds of the model *)

MaxRetriesBound == 3
MaxImgs == 3

---------------------------------------------------------------------------
(* Generic sequence helpers *)

Range(s) == {s[i] : i \in 1..Len(s)}

RECURSIVE Project(_, _)
Project(s, keep) ==
    IF s = <<>> THEN <<>>
    ELSE IF Head(s) \in keep THEN <<Head(s)>> \o Project(Tail(s), keep)
         ELSE Project(Tail(s), keep)

Count(s, e) == Cardinality({i \in 1..Len(s) : s[i] = e})

IsPrefix(s, t) == Len(s) <= Len(t) /\ SubSeq(t, 1, Len(s)) = s

---------------------------------------------------------------------------
(* Text: str.strip, str.lower, clean_text *)

SpaceTokens == {" ", "\n"}
TagTokens == {"<br>", "<b>", "</b>"}

\* str.lower() on one token
LowerToken(tok) ==
    CASE tok = "AliExpress" -> "aliexpress"
      [] tok = "Widget" -> "widget"
      [] tok = "Security" -> "security"
      [] tok = "Camera" -> "camera"
      [] tok = "Verify" -> "verify"
      [] tok = "Human" -> "human"
      [] tok = "Nice" -> "nice"
      [] tok = "Pro" -> "pro"
      [] OTHER -> tok

\* str.lower()
Lower(text) == [i \in 1..Len(text) |-> LowerToken(text[i])]

RECURSIVE LStrip(_)
LStrip(text) ==
    IF text # <<>> /\ Head(text) \in SpaceTokens THEN LStrip(Tail(text)) ELSE text

RECURSIVE RStrip(_)
RStrip(text) ==
    IF text # <<>> /\ text[Len(text)] \in SpaceTokens
    THEN RStrip(SubSeq(text, 1, Len(text) - 1))
    ELSE text

\* str.strip()
Strip(text) == RStrip(LStrip(text))

\* the parser turns a character reference into the character it names
DecodeToken(tok) == IF tok = "&lt;br&gt;" THEN "<br>" ELSE tok

\* the text nodes of BeautifulSoup(text, "html.parser"): tags are dropped and
\* cut the text into nodes; cur is the node being read
RECURSIVE TextNodes(_, _)
TextNodes(text, cur) ==
    IF text = <<>> THEN (IF cur = <<>> THEN <<>> ELSE <<cur>>)
    ELSE IF Head(text) \in TagTokens
         THEN (IF cur = <<>> THEN <<>> ELSE <<cur>>) \o TextNodes(Tail(text), <<>>)
         ELSE TextNodes(Tail(text), Append(cur, DecodeToken(Head(text))))

RECURSIVE JoinNodes(_, _)
JoinNodes(nodes, sep) ==
    IF nodes = <<>> THEN <<>>
    ELSE IF Len(nodes) = 1 THEN nodes[1]
         ELSE nodes[1] \o sep \o JoinNodes(Tail(nodes), sep)

\* BeautifulSoup(text, "html.parser").get_text(" ")
get_text(text) == JoinNodes(TextNodes(text, <<>>), <<" ">>)

\* re.sub(r"\s+", " ", text)
RECURSIVE CollapseSpaces(_)
CollapseSpaces(text) ==
    IF text = <<>> THEN <<>>
    ELSE IF Head(text) \in SpaceTokens
         THEN <<" ">> \o CollapseSpaces(LStrip(Tail(text)))
         ELSE <<Head(text)>> \o CollapseSpaces(Tail(text))

clean_text(text) ==
    IF text = <<>> THEN <<>>
    ELSE Strip(CollapseSpaces(get_text(text)))

---------------------------------------------------------------------------
(* URLs: normalize_img_url and the CDN filter *)

StartsWith(s, prefix) == IsPrefix(prefix, s)

\* variant: the two prefix tests in the other order
normalize_img_url_RootFirst(src) ==
    IF src = <<>> THEN <<>>
    ELSE LET s == Strip(src) IN
         IF StartsWith(s, <<"/">>) THEN <<"https:", "/", "/", "www.aliexpress.com">> \o s
         ELSE IF StartsWith(s, <<"/", "/">>) THEN <<"https:">> \o s
         ELSE s

normalize_img_url(src) ==
    IF src = <<>> THEN <<>>
    ELSE LET s == Strip(src) IN
         IF StartsWith(s, <<"/", "/">>) THEN <<"https:">> \o s
         ELSE IF StartsWith(s, <<"/">>) THEN <<"https:", "/", "/", "www.aliexpress.com">> \o s
         ELSE s

\* "alicdn" in src
ContainsAlicdn(src) == \E i \in 1..Len(src) : src[i] \in {"ae01.alicdn.com", "alicdn"}

\* list(dict.fromkeys(images)): seen holds the keys already inserted
RECURSIVE DedupFrom(_, _)
DedupFrom(s, seen) ==
    IF s = <<>> THEN <<>>
    ELSE IF Head(s) \in seen THEN DedupFrom(Tail(s), seen)
         ELSE <<Head(s)>> \o DedupFrom(Tail(s), seen \cup {Head(s)})

Reverse(s) == [i \in 1..Len(s) |-> s[Len(s) + 1 - i]]

\* variant: the last occurrence of a URL is the one that is kept
Dedup_KeepLast(s) == Reverse(DedupFrom(Reverse(s), {}))

Dedup(s) == DedupFrom(s, {})

\* variant: every img with a source is kept, whatever its host
CollectImages_Unfiltered(imgs) ==
    LET srcs == [i \in 1..Len(imgs) |->
                    normalize_img_url(IF imgs[i].src # <<>> THEN imgs[i].src
                                      ELSE imgs[i].data_src)]
    IN  Project(srcs, Range(srcs) \ {<<>>})

\* the loop over container.query_selector_all("img"): img elements are
\* records of their src and data-src attributes, <<>> for a missing one
RECURSIVE CollectImages(_)
CollectImages(imgs) ==
    IF imgs = <<>> THEN <<>>
    ELSE LET img == Head(imgs)
             src == IF img.src # <<>> THEN img.src ELSE img.data_src
             norm == normalize_img_url(src)
         IN  (IF src # <<>> /\ ContainsAlicdn(norm) THEN <<norm>> ELSE <<>>)
             \o CollectImages(Tail(imgs))

---------------------------------------------------------------------------
(* detect_recaptcha and solve_recaptcha_2captcha *)

\* a page as the classifier sees it: the selectors that match an element,
\* page.title() and page.url
CleanUrl == <<"www.aliexpress.com", "item", "1005.html">>
PunishUrl == <<"www.aliexpress.com", "punish">>
ProductPageTitle == <<"Widget", "Pro", "-", "AliExpress">>
SecurityProductPageTitle == <<"Security", "Camera", "Pro", "-", "AliExpress">>
ChallengePageTitle == <<"Verify">>

PageTitles == {ProductPageTitle, SecurityProductPageTitle, ChallengePageTitle}
PageUrls == {CleanUrl, PunishUrl}
PageMatches == {{}, {".baxia-punish"}}
Pages == [matched : PageMatches, title : PageTitles, url : PageUrls]

indicators ==
    <<"iframe[src*='recaptcha']", "iframe[src*='google.com/recaptcha']",
      ".g-recaptcha", "#captcha-verify", ".baxia-punish", "[id*='captcha']">>

TitleKeywords == {"verify", "captcha", "robot", "blocked", "security"}
UrlKeywords == {"baxia", "punish", "captcha", "verify"}

\* any(kw in text for kw in keywords), a keyword being one token of the text
AnyKeywordIn(text, keywords) == \E i \in 1..Len(text) : text[i] \in keywords

detect_recaptcha(page) ==
    IF \E i \in 1..Len(indicators) : indicators[i] \in page.matched THEN TRUE
    ELSE IF AnyKeywordIn(Lower(page.title), TitleKeywords) THEN TRUE
    ELSE IF AnyKeywordIn(Lower(page.url), UrlKeywords) THEN TRUE
    ELSE FALSE

TWO_CAPTCHA_API_KEY == ""

\* what solve_recaptcha_2captcha can return
SolveOutcomes == IF TWO_CAPTCHA_API_KEY = "" THEN {FALSE} ELSE {TRUE, FALSE}

---------------------------------------------------------------------------
(* The render session *)

\* browser.close() on the browser of the current attempt
browser_close(ss) ==
    IF ss = <<>> THEN ss ELSE [ss EXCEPT ![Len(ss)].state = "closed"]

\* variant: no with block, nothing is released when control leaves the attempt
playwright_exit_NoScope(ss) == ss

\* leaving "with sync_playwright() as p": the driver stops and takes the
\* browser launched under it down
playwright_exit(ss) ==
    IF ss = <<>> THEN ss ELSE [ss EXCEPT ![Len(ss)].state = "closed"]

\* variant: the browser is launched once and a later attempt takes it over
launch_Reuse(ss, a) ==
    IF ss = <<>> THEN Append(ss, [attempt |-> a, state |-> "open"])
    ELSE [ss EXCEPT ![Len(ss)].state = "open"]

\* p.chromium.launch + new_context + new_page of attempt a
launch(ss, a) == Append(ss, [attempt |-> a, state |-> "open"])

OpenSessions(ss) == {i \in 1..Len(ss) : ss[i].state = "open"}

\* variant: the rotation is requested after the last attempt as well
AttemptsRemain_Always(a, m) == a <= m

\* "if attempt < max_retries" before rotate_tor_circuit()
AttemptsRemain(a, m) == a < m

empty_result == [title |-> <<>>, description_text |-> <<>>, images |-> <<>>]

---------------------------------------------------------------------------
(* extract_aliexpress_product *)

\* nothing outside the call is going on
HelperIdle == arg = <<>> /\ ret = <<>>

BatchIdle == tasks = <<>>

DbIdle ==
    /\ tables = [fetched |-> {}, refined |-> {}, category |-> {}]
    /\ txn = <<>>
    /\ resp = <<>>

OthersIdle == HelperIdle /\ BatchIdle /\ DbIdle

Init ==
    /\ OthersIdle
    /\ max_retries \in -1..MaxRetriesBound
    /\ attempt = 0
    /\ pc = "loop"
    /\ sessions = <<>>
    /\ log = <<>>
    /\ steps = <<>>
    /\ outcomes = <<>>
    /\ status = "running"
    /\ result = <<>>
    /\ lastPage = <<>>
    /\ lastVerdict = FALSE
    /\ selIdx = 0
    /\ title = <<>>
    /\ description_text = <<>>
    /\ images = <<>>
    /\ collected = <<>>
    /\ swallowed = FALSE
    /\ tabError = FALSE

locals == <<selIdx, title, description_text, images, collected, swallowed, tabError>>
classifier == <<lastPage, lastVerdict>>

\* variant: the wait before a retry is left out
StartAttempt_NoDelay ==
    /\ pc = "loop"
    /\ attempt < max_retries
    /\ attempt' = attempt + 1
    /\ pc' = "launch"
    /\ log' = Append(log, "attempt")
    /\ steps' = <<>>
    /\ lastPage' = <<>>
    /\ lastVerdict' = FALSE
    /\ selIdx' = 0
    /\ title' = <<>>
    /\ description_text' = <<>>
    /\ images' = <<>>
    /\ collected' = <<>>
    /\ swallowed' = FALSE
    /\ tabError' = FALSE
    /\ UNCHANGED <<others, max_retries, sessions, outcomes, status, result>>

\* for attempt in range(1, max_retries + 1): the next iteration starts
StartAttempt ==
    /\ pc = "loop"
    /\ attempt < max_retries
    /\ attempt' = attempt + 1
    /\ pc' = IF attempt + 1 > 1 THEN "delay" ELSE "launch"
    /\ log' = Append(log, "attempt")
    /\ steps' = <<>>
    /\ lastPage' = <<>>
    /\ lastVerdict' = FALSE
    /\ selIdx' = 0
    /\ title' = <<>>
    /\ description_text' = <<>>
    /\ images' = <<>>
    /\ collected' = <<>>
    /\ swallowed' = FALSE
    /\ tabError' = FALSE
    /\ UNCHANGED <<others, max_retries, sessions, outcomes, status, result>>

\* variant: the range runs one further, range(1, max_retries + 2)
Exhausted_OneMore ==
    /\ pc = "loop"
    /\ ~(attempt < max_retries)
    /\ IF attempt < max_retries + 1
       THEN /\ attempt' = attempt + 1
            /\ pc' = "launch"
            /\ log' = Append(log, "attempt")
            /\ UNCHANGED <<status, result>>
       ELSE /\ pc' = "done"
            /\ status' = "returned"
            /\ result' = <<empty_result>>
            /\ log' = Append(log, "return")
            /\ UNCHANGED attempt
    /\ lastPage' = <<>>
    /\ lastVerdict' = FALSE
    /\ UNCHANGED <<others, max_retries, sessions, steps, outcomes, locals>>

\* the loop is over: return empty_result
Exhausted ==
    /\ pc = "loop"
    /\ ~(attempt < max_retries)
    /\ pc' = "done"
    /\ status' = "returned"
    /\ result' = <<empty_result>>
    /\ log' = Append(log, "return")
    /\ lastPage' = <<>>
    /\ lastVerdict' = FALSE
    /\ UNCHANGED <<others, max_retries, attempt, sessions, steps, outcomes, locals>>

\* if attempt > 1: random_delay(5.0, 12.0)
Backoff ==
    /\ pc = "delay"
    /\ pc' = "launch"
    /\ log' = Append(log, "backoff")
    /\ UNCHANGED <<others, max_retries, attempt, sessions, steps, outcomes, status,
                   result, classifier, locals>>

\* with sync_playwright() as p: browser, context and page are created
Launch ==
    /\ pc = "launch"
    /\ sessions' = launch(sessions, attempt)
    /\ pc' = "goto"
    /\ log' = Append(log, "open")
    /\ UNCHANGED <<others, max_retries, attempt, steps, outcomes, status, result,
                   classifier, locals>>

\* a failed attempt: browser.close(), then the test before
\* rotate_tor_circuit(); pre are the events logged before the failure
FailAttempt(kind, pre) ==
    /\ sessions' = browser_close(sessions)
    /\ log' = log \o pre \o <<"close">>
    /\ outcomes' = Append(outcomes, kind)
    /\ pc' = IF AttemptsRemain(attempt, max_retries) THEN "rotate" ELSE "continue"

\* variant: page.goto outside any try, a navigation failure reaches the caller
Goto_Unguarded ==
    /\ pc = "goto"
    /\ steps' = Append(steps, "goto")
    /\ \E ok \in BOOLEAN :
         IF ok
         THEN /\ pc' = "classify1"
              /\ log' = Append(log, "goto")
              /\ UNCHANGED <<sessions, outcomes, status>>
         ELSE /\ pc' = "done"
              /\ sessions' = playwright_exit(sessions)
              /\ log' = log \o <<"goto", "with_exit", "raise">>
              /\ outcomes' = Append(outcomes, "navigation_failed")
              /\ status' = "raised"
    /\ UNCHANGED <<others, max_retries, attempt, result, classifier, locals>>

\* page.goto(...) inside try/except
Goto ==
    /\ pc = "goto"
    /\ steps' = Append(steps, "goto")
    /\ \E ok \in BOOLEAN :
         IF ok
         THEN /\ pc' = "classify1"
              /\ log' = Append(log, "goto")
              /\ UNCHANGED <<sessions, outcomes>>
         ELSE FailAttempt("navigation_failed", <<"goto">>)
    /\ UNCHANGED <<others, max_retries, attempt, status, result, classifier, locals>>

\* rotate_tor_circuit(): the NEWNYM request; its own failures are caught inside
RotateTorCircuit ==
    /\ pc = "rotate"
    /\ pc' = "continue"
    /\ log' = Append(log, "rotate")
    /\ UNCHANGED <<others, max_retries, attempt, sessions, steps, outcomes, status,
                   result, classifier, locals>>

\* continue: control leaves the with block and goes back to the loop head
Continue ==
    /\ pc = "continue"
    /\ pc' = "loop"
    /\ sessions' = playwright_exit(sessions)
    /\ log' = Append(log, "with_exit")
    /\ UNCHANGED <<others, max_retries, attempt, steps, outcomes, status, result,
                   classifier, locals>>

\* if detect_recaptcha(page): solved = solve_recaptcha_2captcha(page) ...
Classify(at, next) ==
    /\ pc = at
    /\ steps' = Append(steps, "classify")
    /\ \E page \in Pages, solved \in SolveOutcomes :
         LET blocked == detect_recaptcha(page) IN
         /\ lastPage' = <<page>>
         /\ lastVerdict' = blocked
         /\ IF blocked /\ ~solved
            THEN FailAttempt("blocked", <<>>)
            ELSE /\ pc' = next
                 /\ UNCHANGED <<sessions, log, outcomes>>
    /\ UNCHANGED <<others, max_retries, attempt, status, result, locals>>

\* the check immediately after load
ClassifyAfterLoad == Classify("classify1", "scroll")

\* page.wait_for_timeout(8000) and the ten mouse-wheel steps
Scroll ==
    /\ pc = "scroll"
    /\ pc' = "classify2"
    /\ steps' = Append(steps, "scroll")
    /\ lastPage' = <<>>
    /\ lastVerdict' = FALSE
    /\ UNCHANGED <<others, max_retries, attempt, sessions, log, outcomes, status,
                   result, locals>>

\* variant: no second check, the attempt goes from the scroll to the tab
ClassifyAfterScroll_Skipped ==
    /\ pc = "classify2"
    /\ pc' = "desc_tab"
    /\ UNCHANGED <<others, max_retries, attempt, sessions, log, steps, outcomes, status,
                   result, classifier, locals>>

\* the check after the scroll
ClassifyAfterScroll == Classify("classify2", "desc_tab")

\* the steps the Description-tab block gets through: tab is whether the tab
\* is found, container whether #product-description is, excAt where an
\* exception ends the block
DescTabSteps(tab, container, excAt) ==
    IF ~tab \/ excAt \in {"query", "click"} THEN <<>>
    ELSE <<"tab_click">> \o
         (IF container /\ excAt # "scroll" THEN <<"region_scroll">> ELSE <<>>)

\* try: click the Description tab and scroll inside the description
ClickDescriptionTab ==
    /\ pc = "desc_tab"
    /\ \E tab \in BOOLEAN, container \in BOOLEAN,
          excAt \in {"none", "query", "click", "scroll"} :
         /\ steps' = steps \o DescTabSteps(tab, container, excAt)
         /\ tabError' = (excAt = "query" \/ (tab /\ excAt = "click")
                         \/ (tab /\ container /\ excAt = "scroll"))
    /\ pc' = "title"
    /\ selIdx' = 1
    /\ lastPage' = <<>>
    /\ lastVerdict' = FALSE
    /\ UNCHANGED <<others, max_retries, attempt, sessions, log, outcomes, status,
                   result, title, description_text, images, collected, swallowed>>

---------------------------------------------------------------------------
(* Field extraction *)

title_selectors ==
    <<"[data-pl='product-title']", ".product-title-text",
      ".title--wrap--UUHae_g h1", "h1.pdp-title", "#root h1", "h1">>

\* what page.query_selector(sel) can give for a title selector: <<>> when
\* no element matches, else <<text_content>>
TitleElements ==
    {<<>>, <<<<" ", "AliExpress", " ">>>>, <<<<"Widget">>>>, <<<<"<br>">>>>}

\* safe_query_text: el.text_content().strip() if el else ""
safe_query_text(el) == IF el = <<>> THEN <<>> ELSE Strip(el[1])

\* variant: any non-empty candidate is taken, the brand name included
TitleAccepted_NoBrandCheck(candidate) == candidate # <<>>

\* if candidate and candidate.lower().strip() != "aliexpress"
TitleAccepted(candidate) ==
    candidate # <<>> /\ Strip(Lower(candidate)) # <<"aliexpress">>

\* what page.query_selector(title_selectors[i]) can return: any element
\* while the page is live, the snapshot's answer when arg holds a DOM snapshot
QueriedElements(i) == IF arg = <<>> THEN TitleElements ELSE {arg[i]}

\* one round of "for sel in title_selectors", then "if not title"; break
\* leaves the loop (selIdx back to 0)
QueryTitle ==
    /\ pc = "title"
    /\ \E el \in QueriedElements(selIdx) :
         LET candidate == safe_query_text(el) IN
         IF TitleAccepted(candidate)
         THEN /\ title' = candidate
              /\ pc' = "describe"
              /\ selIdx' = 0
              /\ UNCHANGED <<sessions, log, outcomes>>
         ELSE IF selIdx < Len(title_selectors)
         THEN /\ selIdx' = selIdx + 1
              /\ UNCHANGED <<pc, title, sessions, log, outcomes>>
         ELSE /\ FailAttempt("title_not_found", <<>>)
              /\ UNCHANGED <<selIdx, title>>
    /\ UNCHANGED <<others, max_retries, attempt, steps, status, result, classifier,
                   description_text, images, collected, swallowed, tabError>>

\* img elements of the description container
ImgARelative == [src |-> <<"/", "/", "ae01.alicdn.com", "/", "a.jpg">>, data_src |-> <<>>]
ImgBLazy ==
    [src |-> <<>>, data_src |-> <<"https:", "/", "/", "ae01.alicdn.com", "/", "b.jpg">>]
ImgPixel == [src |-> <<"/", "pixel.gif">>, data_src |-> <<>>]
ImgElements == {ImgARelative, ImgBLazy, ImgPixel}
ImgLists == UNION {[1..n -> ImgElements] : n \in 0..MaxImgs}

\* the paragraphs of the container: those of class detail-desc-decorate-content
\* and all of them, as text_content values
DescriptionDoms ==
    { [primary |-> <<>>, allp |-> <<>>],
      [primary |-> << <<"Nice">> >>, allp |-> << <<"Pro">>, <<"Nice">> >>],
      [primary |-> << <<" ">> >>, allp |-> << <<" ">>, <<" ", "Widget", "\n">> >>] }

\* for el in ...: text = el.text_content().strip(); if text: description_text += text + " "
RECURSIVE ConcatParagraphs(_)
ConcatParagraphs(ps) ==
    IF ps = <<>> THEN <<>>
    ELSE (IF Strip(Head(ps)) # <<>> THEN Strip(Head(ps)) \o <<" ">> ELSE <<>>)
         \o ConcatParagraphs(Tail(ps))

DescriptionOf(dom) ==
    IF ConcatParagraphs(dom.primary) # <<>> THEN ConcatParagraphs(dom.primary)
    ELSE ConcatParagraphs(dom.allp)

\* the try block over #product-description.  textExc: an exception before
\* any text is read; imgExc = k > 0: the read of the k-th img raises.  Either
\* way the handler catches it and the de-duplication after the img loop is
\* not reached.
ExtractDescription ==
    \E container \in BOOLEAN, textExc \in BOOLEAN :
         IF ~container
         THEN /\ description_text' = <<>>
              /\ images' = <<>>
              /\ collected' = <<>>
              /\ swallowed' = FALSE
         ELSE IF textExc
         THEN /\ description_text' = <<>>
              /\ images' = <<>>
              /\ collected' = <<>>
              /\ swallowed' = TRUE
         ELSE \E dom \in DescriptionDoms, imgs \in ImgLists :
              \E imgExc \in 0..Len(imgs) :
                 /\ description_text' = DescriptionOf(dom)
                 /\ IF imgExc > 0
                    THEN /\ collected' = CollectImages(SubSeq(imgs, 1, imgExc - 1))
                         /\ images' = collected'
                         /\ swallowed' = TRUE
                    ELSE /\ collected' = CollectImages(imgs)
                         /\ images' = Dedup(collected')
                         /\ swallowed' = FALSE

\* variant: an attempt without description text is treated as failed
ExtractDescriptionAndReturn_NeedsDescription ==
    /\ pc = "describe"
    /\ ExtractDescription
    /\ steps' = Append(steps, "extract")
    /\ IF description_text' = <<>>
       THEN /\ FailAttempt("title_not_found", <<>>)
            /\ UNCHANGED <<status, result>>
       ELSE /\ pc' = "done"
            /\ sessions' = playwright_exit(browser_close(sessions))
            /\ log' = log \o <<"close", "with_exit", "return">>
            /\ outcomes' = Append(outcomes, "success")
            /\ status' = "returned"
            /\ result' = << [title |-> clean_text(title),
                             description_text |-> clean_text(description_text'),
                             images |-> images'] >>
    /\ UNCHANGED <<others, max_retries, attempt, classifier, selIdx, title, tabError>>

\* the extraction of description and images, browser.close() and the return
\* of the attempt's result
ExtractDescriptionAndReturn ==
    /\ pc = "describe"
    /\ ExtractDescription
    /\ steps' = Append(steps, "extract")
    /\ pc' = "done"
    /\ sessions' = playwright_exit(browser_close(sessions))
    /\ log' = log \o <<"close", "with_exit", "return">>
    /\ outcomes' = Append(outcomes, "success")
    /\ status' = "returned"
    /\ result' = << [title |-> clean_text(title),
                     description_text |-> clean_text(description_text'),
                     images |-> images'] >>
    /\ UNCHANGED <<others, max_retries, attempt, classifier, selIdx, title, tabError>>

\* the places of an attempt where a Playwright call stands outside any try:
\* page.title() in detect_recaptcha, wait_for_timeout and mouse.wheel, and
\* query_selector / text_content in safe_query_text
UnguardedPcs == {"classify1", "scroll", "classify2", "title"}

\* such a call raises: the with block is left and the exception reaches the caller
Raise ==
    /\ pc \in UnguardedPcs
    /\ pc' = "done"
    /\ sessions' = playwright_exit(sessions)
    /\ log' = log \o <<"with_exit", "raise">>
    /\ outcomes' = Append(outcomes, "exception")
    /\ status' = "raised"
    /\ UNCHANGED <<others, max_retries, attempt, steps, result, classifier, locals>>

Next ==
    \/ StartAttempt
    \/ Exhausted
    \/ Backoff
    \/ Launch
    \/ Goto
    \/ RotateTorCircuit
    \/ Continue
    \/ ClassifyAfterLoad
    \/ Scroll
    \/ ClassifyAfterScroll
    \/ ClickDescriptionTab
    \/ QueryTitle
    \/ ExtractDescriptionAndReturn
    \/ Raise

Spec == Init /\ [][Next]_vars

---------------------------------------------------------------------------
(* Properties of the retry loop *)

FailureKinds == {"navigation_failed", "blocked", "title_not_found"}

AllOutcomesIn(kinds) == \A i \in 1..Len(outcomes) : outcomes[i] \in kinds

\* attempt, rotate, attempt, ..., attempt: n attempts with a rotation between
\* each two
Alternating(n) ==
    [i \in 1..(2 * n - 1) |-> IF i % 2 = 1 THEN "attempt" ELSE "rotate"]

\* C1: when every attempt ends in a detected block that is not solved, a call
\* with max_retries = N >= 1 makes exactly N attempts and N - 1 rotation
\* requests, each rotation between two attempts and none after the last, and
\* returns the empty result without raising.
C1_AllBlockedRetryBound ==
    (pc = "done" /\ max_retries >= 1 /\ AllOutcomesIn({"blocked"})) =>
        /\ status = "returned"
        /\ result = <<empty_result>>
        /\ attempt = max_retries
        /\ Len(outcomes) = max_retries
        /\ Count(log, "attempt") = max_retries
        /\ Count(log, "rotate") = max_retries - 1
        /\ Project(log, {"attempt", "rotate"}) = Alternating(max_retries)

C1_Witness ==
    /\ pc = "done"
    /\ max_retries = 3
    /\ outcomes = <<"blocked", "blocked", "blocked">>
    /\ Count(log, "rotate") = 2

\* C2: a call whose attempts fail only by navigation failure, detected block
\* or missing title never raises; it ends by returning a value, and when
\* max_retries attempts have all failed that value is the empty result.
C2_FailuresNeverPropagate ==
    AllOutcomesIn(FailureKinds) =>
        /\ status # "raised"
        /\ (pc = "done" => status = "returned")
        /\ (pc = "done" /\ Len(outcomes) >= max_retries => result = <<empty_result>>)

C2_Witness ==
    /\ pc = "done"
    /\ status = "returned"
    /\ outcomes = <<"navigation_failed", "blocked", "title_not_found">>
    /\ result = <<empty_result>>

\* C3: no session outlives its attempt: when the call has ended, by return or
\* by an exception, and whenever the loop is about to start the next attempt,
\* every session launched so far is closed.
C3_SessionsTornDown ==
    /\ (pc \in {"loop", "delay", "launch", "done"} => OpenSessions(sessions) = {})
    /\ \A i \in 1..Len(sessions) : i < Len(sessions) => sessions[i].state = "closed"

C3_Witness ==
    /\ pc = "done"
    /\ status = "raised"
    /\ Len(sessions) = 2
    /\ OpenSessions(sessions) = {}

\* C4: one session per attempt, never handed to a later attempt: the i-th
\* session was launched by attempt i, at most one session is open, and once an
\* attempt has launched its browser the number of sessions equals the number of
\* attempts started; the page steps of an attempt run on that attempt's session.
C4_OneSessionPerAttempt ==
    /\ Cardinality(OpenSessions(sessions)) <= 1
    /\ \A i \in 1..Len(sessions) : sessions[i].attempt = i
    /\ Len(sessions) = (IF pc \in {"delay", "launch"} THEN attempt - 1 ELSE attempt)
    /\ (pc \in {"goto", "classify1", "scroll", "classify2", "desc_tab", "title", "describe"}
          => /\ sessions[Len(sessions)].attempt = attempt
             /\ sessions[Len(sessions)].state = "open")

C4_Witness ==
    /\ pc = "goto"
    /\ attempt = 3
    /\ Len(sessions) = 3
    /\ OpenSessions(sessions) = {3}

---------------------------------------------------------------------------
(* Properties of the returned value *)

NoDuplicates(s) == \A i, j \in 1..Len(s) : i # j => s[i] # s[j]

\* C5: every returned value is the empty result or has a non-empty title.
C5_Original_TitleNeverEmptyAlone ==
    status = "returned" =>
        (result[1] = empty_result \/ result[1].title # <<>>)

\* C6: the images of every returned value hold no URL twice.
C6_Original_ImagesUnique ==
    status = "returned" => NoDuplicates(result[1].images)

---------------------------------------------------------------------------
(* De-duplication on its own: list(dict.fromkeys(images)) *)

MaxDedupLen == 4

UrlA == <<"https:", "/", "/", "ae01.alicdn.com", "/", "a.jpg">>
UrlB == <<"https:", "/", "/", "ae01.alicdn.com", "/", "b.jpg">>
UrlC == <<"https:", "/", "/", "ae01.alicdn.com", "/", "c.jpg">>
DedupInputs == UNION {[1..n -> {UrlA, UrlB, UrlC}] : n \in 0..MaxDedupLen}

InitDedup ==
    /\ OthersIdle
    /\ pc = "dedup"
    /\ collected \in DedupInputs
    /\ images = collected
    /\ max_retries = 0
    /\ attempt = 0
    /\ sessions = <<>>
    /\ log = <<>>
    /\ steps = <<>>
    /\ outcomes = <<>>
    /\ status = "running"
    /\ result = <<>>
    /\ lastPage = <<>>
    /\ lastVerdict = FALSE
    /\ selIdx = 0
    /\ title = <<>>
    /\ description_text = <<>>
    /\ swallowed = FALSE
    /\ tabError = FALSE

\* images = list(dict.fromkeys(images))
ApplyDedup ==
    /\ pc = "dedup"
    /\ pc' = "deduped"
    /\ images' = Dedup(collected)
    /\ UNCHANGED <<others, max_retries, attempt, sessions, log, steps, outcomes, status,
                   result, classifier, selIdx, title, description_text,
                   collected, swallowed, tabError>>

NextDedup == ApplyDedup

SpecDedup == InitDedup /\ [][NextDedup]_vars

FirstIndex(s, e) == CHOOSE i \in 1..Len(s) : s[i] = e /\ \A j \in 1..(i - 1) : s[j] # e

\* C7: de-duplication keeps exactly the first occurrence of every distinct
\* URL, in first-seen order; [A, B, A, C] gives [A, B, C].
C7_DedupKeepsFirstOccurrences ==
    pc = "deduped" =>
        /\ Range(images) = Range(collected)
        /\ NoDuplicates(images)
        /\ \A i, j \in 1..Len(images) :
              i < j => FirstIndex(collected, images[i]) < FirstIndex(collected, images[j])
        /\ (collected = <<UrlA, UrlB, UrlA, UrlC>> => images = <<UrlA, UrlB, UrlC>>)

C7_Witness ==
    /\ pc = "deduped"
    /\ collected = <<UrlA, UrlB, UrlA, UrlC>>
    /\ images = <<UrlA, UrlB, UrlC>>

---------------------------------------------------------------------------
(* Properties of the classifier and of the order of steps *)

InteractionSteps == {"scroll", "tab_click", "region_scroll"}

LastIndexOf(s, e) == CHOOSE i \in 1..Len(s) : s[i] = e /\ \A j \in (i + 1)..Len(s) : s[j] # e

ReachedExtraction == pc = "title" \/ pc = "describe" \/ "extract" \in Range(steps)

\* C8: an attempt that reaches field extraction has classified the page at
\* least twice, first right after navigation and last after the whole
\* interaction phase: no scroll, tab click or scroll inside the description
\* comes after the last classification.
C8_Original_LastClassifyAfterInteraction ==
    ReachedExtraction =>
        /\ Count(steps, "classify") >= 2
        /\ steps[1] = "goto" /\ steps[2] = "classify"
        /\ \A i \in 1..Len(steps) :
              steps[i] \in InteractionSteps => i < LastIndexOf(steps, "classify")

\* C8 as amended: the page is classified exactly twice, right after
\* navigation and right after the incremental scroll; whatever follows the
\* second classification before extraction is the Description-tab click and
\* the scroll inside the description, which are not followed by a classification.
C8_ClassifyAfterLoadAndAfterScroll ==
    ReachedExtraction =>
        /\ Count(steps, "classify") = 2
        /\ SubSeq(steps, 1, 4) = <<"goto", "classify", "scroll", "classify">>
        /\ Project(SubSeq(steps, 5, Len(steps)), {"tab_click", "region_scroll", "extract"})
              = SubSeq(steps, 5, Len(steps))
        /\ Project(steps, {"tab_click", "region_scroll"})
              \in {<<>>, <<"tab_click">>, <<"tab_click", "region_scroll">>}

C8_Witness ==
    /\ pc = "describe"
    /\ steps = <<"goto", "classify", "scroll", "classify", "tab_click", "region_scroll">>

LongBrandTitles == {ProductPageTitle, SecurityProductPageTitle}

\* C9: without a structural marker and without a URL marker, the classifier
\* reports a block only for a short title that holds a block keyword; a long
\* title with the brand name in it is classified clean.
C9_Original_LongBrandTitleIsClean ==
    (lastPage # <<>> /\ lastPage[1].matched = {} /\ lastPage[1].url = CleanUrl) =>
        /\ (lastVerdict => /\ lastPage[1].title \notin LongBrandTitles
                           /\ AnyKeywordIn(Lower(lastPage[1].title), TitleKeywords))
        /\ (lastPage[1].title \in LongBrandTitles => ~lastVerdict)

\* the part of the log C10 speaks about
OrderLog == Project(log, {"close", "rotate", "backoff", "goto", "return", "raise"})

\* the index in s of the k-th occurrence of e
NthIndexOf(s, e, k) ==
    CHOOSE i \in 1..Len(s) : s[i] = e /\ Count(SubSeq(s, 1, i), e) = k

Compatible(s, t) == IsPrefix(s, t) \/ IsPrefix(t, s)

Take(s, n) == SubSeq(s, 1, IF Len(s) < n THEN Len(s) ELSE n)

\* C10: after a failed attempt the session is closed first; if attempts
\* remain, one rotation request, one backoff wait and the next navigation
\* follow in this order; if none remain, nothing but the return of the empty
\* result follows.
C10_FailureThenRotateBackoffNavigate ==
    /\ (pc = "rotate" => OpenSessions(sessions) = {})
    /\ \A k \in 1..Len(outcomes) :
          outcomes[k] \in FailureKinds =>
             LET i == NthIndexOf(OrderLog, "close", k)
                 after == SubSeq(OrderLog, i + 1, Len(OrderLog))
             IN  /\ Count(OrderLog, "close") >= k
                 /\ IF k < max_retries
                    THEN Compatible(Take(after, 3), <<"rotate", "backoff", "goto">>)
                    ELSE /\ Compatible(after, <<"return">>)
                         /\ (pc = "done" => result = <<empty_result>>)

C10_Witness ==
    /\ outcomes = <<"title_not_found">>
    /\ attempt = 2
    /\ pc = "classify1"
    /\ OrderLog = <<"goto", "close", "rotate", "backoff", "goto">>

---------------------------------------------------------------------------
(* Success ends the call *)

\* C11: an attempt whose title loop accepted a candidate ends the call in its
\* next step, whatever description and images turn out to be: the call returns
\* the result built from this attempt's title, description and images, no
\* attempt, rotation or backoff is added, and nothing happens after the return.
C11_FirstTitleEndsCall ==
    [][ /\ (pc = "describe" =>
              /\ title # <<>>
              /\ pc' = "done"
              /\ status' = "returned"
              /\ result' = << [title |-> clean_text(title),
                               description_text |-> clean_text(description_text'),
                               images |-> images'] >>
              /\ Project(log', {"attempt", "rotate", "backoff"})
                    = Project(log, {"attempt", "rotate", "backoff"})
              /\ attempt' = attempt)
        /\ (status = "returned" => pc' = "done" /\ result' = result /\ log' = log)
      ]_vars

C11_Witness ==
    /\ status = "returned"
    /\ outcomes = <<"blocked", "success">>
    /\ result = << [title |-> <<"Widget">>, description_text |-> <<>>, images |-> <<>>] >>

---------------------------------------------------------------------------
(* The title loop against a fixed DOM *)

\* an attempt that has reached the title loop, on a page whose answers to
\* the six title selectors are fixed
InitTitle ==
    /\ BatchIdle /\ DbIdle
    /\ arg \in [1..Len(title_selectors) -> TitleElements]
    /\ ret = <<>>
    /\ max_retries = 1
    /\ attempt = 1
    /\ pc = "title"
    /\ sessions = launch(<<>>, 1)
    /\ log = <<"attempt", "open", "goto">>
    /\ steps = <<"goto", "classify", "scroll", "classify">>
    /\ outcomes = <<>>
    /\ status = "running"
    /\ result = <<>>
    /\ lastPage = <<>>
    /\ lastVerdict = FALSE
    /\ selIdx = 1
    /\ title = <<>>
    /\ description_text = <<>>
    /\ images = <<>>
    /\ collected = <<>>
    /\ swallowed = FALSE
    /\ tabError = FALSE

NextTitle == QueryTitle

SpecTitle == InitTitle /\ [][NextTitle]_vars

\* the element has text that is not empty after trimming and is not the
\* brand name in any letter case
AcceptableTitleElement(el) ==
    /\ el # <<>>
    /\ Strip(el[1]) # <<>>
    /\ Lower(Strip(el[1])) # <<"aliexpress">>

OnlyH1IsWidget ==
    [i \in 1..Len(title_selectors) |->
        IF title_selectors[i] = "h1" THEN << <<"Widget">> >> ELSE <<>>]

\* C12: the title loop takes the trimmed text of the first selector, in the
\* order of title_selectors, whose element has acceptable text; selectors
\* that match nothing or only the brand name are passed over; when only the
\* last selector (h1) matches "Widget" the title is "Widget", and when no
\* selector is acceptable there is no title and the attempt fails.
C12_FirstAcceptableLocatorWins ==
    /\ (pc = "describe" =>
          \E i \in 1..Len(arg) :
             /\ AcceptableTitleElement(arg[i])
             /\ \A j \in 1..(i - 1) : ~AcceptableTitleElement(arg[j])
             /\ title = Strip(arg[i][1]))
    /\ (pc = "title" => \A j \in 1..(selIdx - 1) : ~AcceptableTitleElement(arg[j]))
    /\ (pc \notin {"describe", "title"} =>
          /\ \A i \in 1..Len(arg) : ~AcceptableTitleElement(arg[i])
          /\ title = <<>>
          /\ outcomes = <<"title_not_found">>)
    /\ (pc = "describe" /\ arg = OnlyH1IsWidget => title = <<"Widget">>)

C12_Witness ==
    /\ pc = "describe"
    /\ arg = OnlyH1IsWidget
    /\ title = <<"Widget">>

---------------------------------------------------------------------------
(* normalize_img_url on its own *)

MaxUrlLen == 4

UrlTokens == {"/", "h", "https:", " "}
UrlInputs == UNION {[1..n -> UrlTokens] : n \in 1..MaxUrlLen}

\* no call of extract_aliexpress_product is under way
ScrapeIdle ==
    /\ max_retries = 0
    /\ attempt = 0
    /\ sessions = <<>>
    /\ log = <<>>
    /\ steps = <<>>
    /\ outcomes = <<>>
    /\ status = "running"
    /\ result = <<>>
    /\ lastPage = <<>>
    /\ lastVerdict = FALSE
    /\ selIdx = 0
    /\ title = <<>>
    /\ description_text = <<>>
    /\ images = <<>>
    /\ collected = <<>>
    /\ swallowed = FALSE
    /\ tabError = FALSE

scrape_vars == <<max_retries, attempt, sessions, log, steps, outcomes, status,
                 result, classifier, locals>>

InitNormalize ==
    /\ ScrapeIdle /\ BatchIdle /\ DbIdle
    /\ arg \in UrlInputs
    /\ ret = <<>>
    /\ pc = "normalize"

\* src = normalize_img_url(src)
ApplyNormalize ==
    /\ pc = "normalize"
    /\ pc' = "normalized"
    /\ ret' = <<normalize_img_url(arg)>>
    /\ UNCHANGED <<arg, tasks, tables, txn, resp, scrape_vars>>

NextNormalize == ApplyNormalize

SpecNormalize == InitNormalize /\ [][NextNormalize]_vars

SiteOrigin == <<"https:", "/", "/", "www.aliexpress.com">>

\* the URL without the whitespace around it
Trimmed(u) ==
    LET first == {i \in 1..Len(u) : u[i] \notin SpaceTokens}
    IN  IF first = {} THEN <<>>
        ELSE SubSeq(u, CHOOSE i \in first : \A j \in first : i <= j,
                       CHOOSE i \in first : \A j \in first : j <= i)

\* C13: "//h/p" becomes "https://h/p", "/p" becomes the site origin followed
\* by "/p", any other non-empty URL comes back trimmed and otherwise
\* unchanged; a URL that starts with "//" is never treated as root-relative.
C13_NormalizeImgUrl ==
    pc = "normalized" =>
        LET t == Trimmed(arg) IN
        /\ (Len(t) >= 2 /\ t[1] = "/" /\ t[2] = "/" => ret[1] = <<"https:">> \o t)
        /\ (Len(t) >= 1 /\ t[1] = "/" /\ (Len(t) = 1 \/ t[2] # "/") => ret[1] = SiteOrigin \o t)
        /\ (Len(t) = 0 \/ t[1] # "/" => ret[1] = t)
        /\ (arg = <<"/", "/", "h", "/">> => ret[1] = <<"https:", "/", "/", "h", "/">>)
        /\ (arg = <<"/", "h">> => ret[1] = <<"https:", "/", "/", "www.aliexpress.com", "/", "h">>)
        /\ (arg = <<"https:", "/", "/", "h">> => ret[1] = arg)

C13_Witness ==
    /\ pc = "normalized"
    /\ arg = <<" ", "/", "/", "h">>
    /\ ret = << <<"https:", "/", "/", "h">> >>

---------------------------------------------------------------------------
(* clean_text on its own *)

MaxTextLen == 3

TextTokens == {"Nice", " ", "\n", "<b>", "&lt;br&gt;"}
TextInputs == UNION {[1..n -> TextTokens] : n \in 1..MaxTextLen}

InitCleanText ==
    /\ ScrapeIdle /\ BatchIdle /\ DbIdle
    /\ arg \in TextInputs
    /\ ret = <<>>
    /\ pc = "clean"

\* "title": clean_text(title)
ApplyCleanText ==
    /\ pc = "clean"
    /\ pc' = "cleaned"
    /\ ret' = <<clean_text(arg)>>
    /\ UNCHANGED <<arg, tasks, tables, txn, resp, scrape_vars>>

NextCleanText == ApplyCleanText

SpecCleanText == InitCleanText /\ [][NextCleanText]_vars

\* C14: the output of clean_text holds no markup tag, no whitespace other than
\* single spaces between words, no whitespace at either end, and clean_text
\* maps it to itself.
C14_Original_CleanTextNormalizesOnce ==
    pc = "cleaned" =>
        LET out == ret[1] IN
        /\ \A i \in 1..Len(out) : out[i] \notin TagTokens /\ out[i] # "\n"
        /\ \A i \in 1..(Len(out) - 1) : ~(out[i] = " " /\ out[i + 1] = " ")
        /\ out # <<>> => out[1] # " " /\ out[Len(out)] # " "
        /\ clean_text(out) = out

---------------------------------------------------------------------------
(* scrape: a batch of URLs on the thread pool *)

MaxUrls == 6

\* ThreadPoolExecutor(max_workers=5)
max_workers == 5

\* extract_aliexpress_product(url) is called without max_retries
max_retries_default == 3

QueuedTask == [state |-> "queued", attempt |-> 0, session |-> <<>>]

\* the tasks a worker thread is running
Active(ts) == {i \in 1..Len(ts) : ts[i].state \in {"attempt", "rotating", "saving"}}

\* the tasks with a browser open
WithSession(ts) == {i \in 1..Len(ts) : ts[i].session # <<>>}

\* variant: one thread per submitted URL
WorkerAvailable_Unbounded(ts) == TRUE

\* the pool starts a thread only while fewer than max_workers exist, and a
\* thread takes the next queued call when it has finished one
WorkerAvailable(ts) == Cardinality(Active(ts)) < max_workers

\* the browser that attempt a of task i launches under its own sync_playwright()
launch_in_task(i, a) == <<i, a>>

InitBatch ==
    /\ ScrapeIdle /\ HelperIdle /\ DbIdle
    /\ pc = "batch"
    /\ \E n \in 1..MaxUrls : tasks = [i \in 1..n |-> QueuedTask]

batch_frame == <<pc, arg, ret, tables, txn, resp, scrape_vars>>

\* a worker takes the oldest queued call; extract_product_id accepts the URL
\* and the first attempt launches its browser
StartTask(i) ==
    /\ pc = "batch"
    /\ tasks[i].state = "queued"
    /\ \A j \in 1..(i - 1) : tasks[j].state # "queued"
    /\ WorkerAvailable(tasks)
    /\ tasks' = [tasks EXCEPT ![i] = [state |-> "attempt", attempt |-> 1,
                                      session |-> launch_in_task(i, 1)]]
    /\ UNCHANGED batch_frame

\* extract_product_id raises ValueError: the call returns at once
InvalidUrl(i) ==
    /\ pc = "batch"
    /\ tasks[i].state = "queued"
    /\ \A j \in 1..(i - 1) : tasks[j].state # "queued"
    /\ WorkerAvailable(tasks)
    /\ tasks' = [tasks EXCEPT ![i] = [state |-> "done", attempt |-> 0, session |-> <<>>]]
    /\ UNCHANGED batch_frame

\* the loop goes to the next attempt, or ends with empty_result
NextAttempt(i, a) ==
    IF a < max_retries_default
    THEN [state |-> "attempt", attempt |-> a + 1, session |-> launch_in_task(i, a + 1)]
    ELSE [state |-> "done", attempt |-> 0, session |-> <<>>]

\* the attempt returns a result: the browser is closed, the worker goes on to
\* refine, categorize and save
AttemptSucceeds(i) ==
    /\ pc = "batch"
    /\ tasks[i].state = "attempt"
    /\ tasks' = [tasks EXCEPT ![i] = [state |-> "saving", attempt |-> 0, session |-> <<>>]]
    /\ UNCHANGED batch_frame

\* the attempt is classified blocked: browser.close(), then rotate_tor_circuit()
\* when attempts remain
AttemptBlocked(i) ==
    /\ pc = "batch"
    /\ tasks[i].state = "attempt"
    /\ tasks' = [tasks EXCEPT ![i] =
                    IF AttemptsRemain(tasks[i].attempt, max_retries_default)
                    THEN [state |-> "rotating", attempt |-> tasks[i].attempt, session |-> <<>>]
                    ELSE NextAttempt(i, tasks[i].attempt)]
    /\ UNCHANGED batch_frame

\* navigation times out or no title is found: browser.close() and continue
AttemptFails(i) ==
    /\ pc = "batch"
    /\ tasks[i].state = "attempt"
    /\ tasks' = [tasks EXCEPT ![i] = NextAttempt(i, tasks[i].attempt)]
    /\ UNCHANGED batch_frame

\* rotate_tor_circuit returns (after its settle wait, or after its except)
RotateReturns(i) ==
    /\ pc = "batch"
    /\ tasks[i].state = "rotating"
    /\ tasks' = [tasks EXCEPT ![i] = NextAttempt(i, tasks[i].attempt)]
    /\ UNCHANGED batch_frame

\* _scrape_single returns its ScrapeResult
TaskReturns(i) ==
    /\ pc = "batch"
    /\ tasks[i].state = "saving"
    /\ tasks' = [tasks EXCEPT ![i].state = "done"]
    /\ UNCHANGED batch_frame

\* as_completed is exhausted and the executor is left
BatchReturns ==
    /\ pc = "batch"
    /\ \A i \in 1..Len(tasks) : tasks[i].state = "done"
    /\ pc' = "batch_done"
    /\ UNCHANGED <<tasks, arg, ret, tables, txn, resp, scrape_vars>>

NextBatch ==
    \/ \E i \in 1..Len(tasks) :
          \/ StartTask(i)
          \/ InvalidUrl(i)
          \/ AttemptSucceeds(i)
          \/ AttemptBlocked(i)
          \/ AttemptFails(i)
          \/ RotateReturns(i)
          \/ TaskReturns(i)
    \/ BatchReturns

SpecBatch == InitBatch /\ [][NextBatch]_vars

\* C15: however many URLs the batch holds, at most 5 scrapes are running and at
\* most 5 browsers are open at any time, and the browser of a running scrape
\* is one that this scrape launched and no other scrape holds.
C15_AtMostFiveWorkersOwnSessions ==
    /\ Cardinality(Active(tasks)) <= 5
    /\ Cardinality(WithSession(tasks)) <= 5
    /\ WithSession(tasks) \subseteq Active(tasks)
    /\ \A i \in WithSession(tasks) :
          /\ tasks[i].session[1] = i
          /\ \A j \in WithSession(tasks) : tasks[j].session = tasks[i].session => j = i

C15_Witness ==
    /\ Len(tasks) > 5
    /\ Cardinality(WithSession(tasks)) = 5
    /\ \E i \in 1..Len(tasks) : tasks[i].state = "queued"

\* C16: at most one worker is inside rotate_tor_circuit at any time.
C16_Original_OneRotationInFlight ==
    Cardinality({i \in 1..Len(tasks) : tasks[i].state = "rotating"}) <= 1

---------------------------------------------------------------------------
(* The three tables: _upsert and the delete endpoints *)

MaxProductId == 2

ProductIds == 1..MaxProductId

\* what one scrape stores: its fetched, refined and category fields
Payloads == {"v1", "v2"}

TableNames == {"fetched", "refined", "category"}

\* db.query(Model).filter(Model.product_id == product_id)
RowsOf(tabs, tab, p) == {r \in tabs[tab] : r.product_id = p}

\* "if row: row.field = ... else: db.add(Model(product_id=..., ...))"
update_or_add(tabs, tab, p, d) ==
    IF RowsOf(tabs, tab, p) # {}
    THEN [tabs EXCEPT ![tab] = {IF r.product_id = p THEN [r EXCEPT !.v = d] ELSE r : r \in @}]
    ELSE [tabs EXCEPT ![tab] = @ \cup {[product_id |-> p, v |-> d]}]

\* variant: a session in autocommit mode, where a flush is final
flush_Autocommit(committed, work) == work

\* db.flush() sends the pending rows inside the open transaction; what other
\* sessions read stays as committed
flush(committed, work) == committed

\* variant: only the table's own row goes, as the database does for a foreign
\* key it does not enforce
delete_cascade_ParentOnly(tabs, p) ==
    [tabs EXCEPT !.fetched = @ \ RowsOf(tabs, "fetched", p)]

\* db.delete(row) on a ProductFetched: cascade="all, delete-orphan" deletes
\* row.refined and row.category with it
delete_cascade(tabs, p) ==
    [tab \in TableNames |-> tabs[tab] \ RowsOf(tabs, tab, p)]

\* variant: deleting the child also deletes its product and the sibling row
delete_child_WithProduct(tabs, tab, p) ==
    [t \in TableNames |-> tabs[t] \ RowsOf(tabs, t, p)]

\* db.delete(row) on a ProductRefined or CategoryAssignment: the "product"
\* side of the relationship has no cascade
delete_child(tabs, tab, p) ==
    [tabs EXCEPT ![tab] = @ \ RowsOf(tabs, tab, p)]

InitDb ==
    /\ ScrapeIdle /\ HelperIdle /\ BatchIdle /\ DbIdle
    /\ pc = "db"

db_frame == <<pc, arg, ret, tasks, scrape_vars>>

\* _upsert step 1 in a fresh SessionLocal(): product_fetched, then db.flush()
upsert_product(p, d) ==
    /\ pc = "db"
    /\ txn = <<>>
    /\ LET work == update_or_add(tables, "fetched", p, d) IN
       /\ txn' = << [product_id |-> p, v |-> d, step |-> "refined", work |-> work] >>
       /\ tables' = flush(tables, work)
    /\ resp' = <<>>
    /\ UNCHANGED db_frame

\* _upsert step 2: product_refined
upsert_refined ==
    /\ pc = "db"
    /\ txn # <<>>
    /\ txn[1].step = "refined"
    /\ txn' = << [txn[1] EXCEPT !.step = "category",
                                !.work = update_or_add(@, "refined", txn[1].product_id, txn[1].v)] >>
    /\ UNCHANGED <<tables, resp, db_frame>>

\* _upsert step 3: category_assignment
upsert_category ==
    /\ pc = "db"
    /\ txn # <<>>
    /\ txn[1].step = "category"
    /\ txn' = << [txn[1] EXCEPT !.step = "commit",
                                !.work = update_or_add(@, "category", txn[1].product_id, txn[1].v)] >>
    /\ UNCHANGED <<tables, resp, db_frame>>

\* db.commit(), db.refresh(product), and db.close() in _scrape_single
upsert_commit ==
    /\ pc = "db"
    /\ txn # <<>>
    /\ txn[1].step = "commit"
    /\ tables' = txn[1].work
    /\ txn' = <<>>
    /\ resp' = << [op |-> "upsert", code |-> 200] >>
    /\ UNCHANGED db_frame

\* an exception inside _upsert before db.commit(): the finally of
\* _scrape_single closes the session, which rolls the transaction back
upsert_fails ==
    /\ pc = "db"
    /\ txn # <<>>
    /\ txn' = <<>>
    /\ resp' = << [op |-> "upsert", code |-> 500] >>
    /\ UNCHANGED <<tables, db_frame>>

delete_fetched(p) ==
    /\ pc = "db"
    /\ txn = <<>>
    /\ IF RowsOf(tables, "fetched", p) = {}
       THEN /\ resp' = << [op |-> "delete_fetched", code |-> 404] >>
            /\ UNCHANGED tables
       ELSE /\ tables' = delete_cascade(tables, p)
            /\ resp' = << [op |-> "delete_fetched", code |-> 200] >>
    /\ UNCHANGED <<txn, db_frame>>

delete_refined(p) ==
    /\ pc = "db"
    /\ txn = <<>>
    /\ IF RowsOf(tables, "refined", p) = {}
       THEN /\ resp' = << [op |-> "delete_refined", code |-> 404] >>
            /\ UNCHANGED tables
       ELSE /\ tables' = delete_child(tables, "refined", p)
            /\ resp' = << [op |-> "delete_refined", code |-> 200] >>
    /\ UNCHANGED <<txn, db_frame>>

delete_category(p) ==
    /\ pc = "db"
    /\ txn = <<>>
    /\ IF RowsOf(tables, "category", p) = {}
       THEN /\ resp' = << [op |-> "delete_category", code |-> 404] >>
            /\ UNCHANGED tables
       ELSE /\ tables' = delete_child(tables, "category", p)
            /\ resp' = << [op |-> "delete_category", code |-> 200] >>
    /\ UNCHANGED <<txn, db_frame>>

NextDb ==
    \/ \E p \in ProductIds, d \in Payloads : upsert_product(p, d)
    \/ upsert_refined
    \/ upsert_category
    \/ upsert_commit
    \/ upsert_fails
    \/ \E p \in ProductIds : delete_fetched(p)
    \/ \E p \in ProductIds : delete_refined(p)
    \/ \E p \in ProductIds : delete_category(p)

SpecDb == InitDb /\ [][NextDb]_vars

\* C18: while _upsert runs, the three tables read as before the call; when it
\* ends, either each table holds exactly one row for the product_id and that
\* row carries the new data (rows of other products untouched), or the call
\* failed and the tables are as they were.
C18_UpsertAtomic ==
    [][ /\ (txn' # <<>> => tables' = tables)
        /\ (txn # <<>> /\ txn' = <<>> =>
              \/ /\ resp' = << [op |-> "upsert", code |-> 200] >>
                 /\ \A tab \in TableNames :
                       /\ RowsOf(tables', tab, txn[1].product_id)
                             = {[product_id |-> txn[1].product_id, v |-> txn[1].v]}
                       /\ \A q \in ProductIds \ {txn[1].product_id} :
                             RowsOf(tables', tab, q) = RowsOf(tables, tab, q)
              \/ /\ resp' = << [op |-> "upsert", code |-> 500] >>
                 /\ tables' = tables)
      ]_vars

C18_Witness ==
    /\ resp = << [op |-> "upsert", code |-> 500] >>
    /\ \A tab \in TableNames : RowsOf(tables, tab, 1) = {[product_id |-> 1, v |-> "v1"]}
    /\ \A tab \in TableNames : RowsOf(tables, tab, 2) = {}

NoRowsFor(tabs, p) == \A tab \in TableNames : RowsOf(tabs, tab, p) = {}

NoOrphans(tabs) ==
    \A tab \in {"refined", "category"} : \A r \in tabs[tab] :
        RowsOf(tabs, "fetched", r.product_id) # {}

\* C19: a delete_fetched that finds the product leaves no row for its
\* product_id in any table, and after every operation each refined or
\* category row has a product_fetched row with the same product_id.
C19_DeleteFetchedCascadesNoOrphans ==
    [][ /\ \A p \in ProductIds :
             (delete_fetched(p) /\ RowsOf(tables, "fetched", p) # {}) =>
                 /\ NoRowsFor(tables', p)
                 /\ \A q \in ProductIds \ {p}, tab \in TableNames :
                       RowsOf(tables', tab, q) = RowsOf(tables, tab, q)
        /\ NoOrphans(tables')
      ]_vars

C19_Witness ==
    /\ resp = << [op |-> "delete_fetched", code |-> 200] >>
    /\ NoRowsFor(tables, 1)
    /\ \A tab \in TableNames : RowsOf(tables, tab, 2) # {}

\* the table a delete endpoint works on
ChildDeleteHolds(p, tab, op) ==
    IF RowsOf(tables, tab, p) = {}
    THEN /\ resp' = << [op |-> op, code |-> 404] >>
         /\ tables' = tables
    ELSE /\ resp' = << [op |-> op, code |-> 200] >>
         /\ tables'[tab] = tables[tab] \ RowsOf(tables, tab, p)
         /\ \A t \in TableNames \ {tab} : tables'[t] = tables[t]

\* C20: delete_refined removes the product_refined row of the product_id and
\* nothing else, delete_category removes the category_assignment row and
\* nothing else, and each answers 404 and changes nothing when its row is
\* missing.
C20_ChildDeletesTouchOnlyTheirRow ==
    [][ \A p \in ProductIds :
          /\ delete_refined(p) => ChildDeleteHolds(p, "refined", "delete_refined")
          /\ delete_category(p) => ChildDeleteHolds(p, "category", "delete_category")
      ]_vars

C20_Witness ==
    /\ resp = << [op |-> "delete_refined", code |-> 200] >>
    /\ RowsOf(tables, "fetched", 1) # {}
    /\ RowsOf(tables, "refined", 1) = {}
    /\ RowsOf(tables, "category", 1) # {}

---------------------------------------------------------------------------
(* Interaction steps *)

\* where the attempt scrolls the page and where it works on the Description tab
InteractionPcs == {"scroll", "desc_tab"}

\* C21: whatever happens in an interaction step (the scroll loop, finding or
\* clicking the Description tab, scrolling the revealed region), the attempt
\* goes on towards field extraction: the call stays running, no exception
\* leaves it and the attempt is not given up.
C21_Original_InteractionNeverAborts ==
    [][ (pc \in InteractionPcs) =>
          (/\ pc' \in {"classify2", "title"}
           /\ status' = "running"
           /\ outcomes' = outcomes
           /\ attempt' = attempt)
      ]_vars

---------------------------------------------------------------------------
(* The img loop and the de-duplication on their own *)

ImgEmbed == [src |-> <<"https:", "/", "/", "cdn.example", "/", "x.png">>, data_src |-> <<>>]
ImgNoSource == [src |-> <<>>, data_src |-> <<>>]

ImgInputs ==
    UNION {[1..n -> ImgElements \cup {ImgEmbed, ImgNoSource}] : n \in 0..MaxImgs}

InitImages ==
    /\ ScrapeIdle /\ BatchIdle /\ DbIdle
    /\ arg \in ImgInputs
    /\ ret = <<>>
    /\ pc = "collect"

\* the img loop, then images = list(dict.fromkeys(images)); when the read of
\* the imgExc-th img raises, the handler is entered with the list as it is
ApplyCollect ==
    /\ pc = "collect"
    /\ pc' = "collected"
    /\ \E imgExc \in 0..Len(arg) :
          ret' = << IF imgExc > 0
                    THEN CollectImages(SubSeq(arg, 1, imgExc - 1))
                    ELSE Dedup(CollectImages(arg)) >>
    /\ UNCHANGED <<arg, tasks, tables, txn, resp, scrape_vars>>

NextImages == ApplyCollect

SpecImages == InitImages /\ [][NextImages]_vars

\* the URL the loop reads from an img element, normalized
SourceOf(img) == normalize_img_url(IF img.src # <<>> THEN img.src ELSE img.data_src)

\* C22: every URL in the images of a result holds the marker "alicdn" and is
\* the normalized source of an img of the container; the source of an img
\* that does not hold the marker (a pixel, a third-party embed) is not in it.
C22_ImagesHoldCdnMarker ==
    pc = "collected" =>
        /\ \A k \in 1..Len(ret[1]) :
              /\ \E j \in 1..Len(ret[1][k]) : ret[1][k][j] \in {"ae01.alicdn.com", "alicdn"}
              /\ \E i \in 1..Len(arg) : SourceOf(arg[i]) = ret[1][k]
        /\ SourceOf(ImgPixel) \notin Range(ret[1])
        /\ SourceOf(ImgEmbed) \notin Range(ret[1])

C22_Witness ==
    /\ pc = "collected"
    /\ arg = <<ImgPixel, ImgARelative, ImgEmbed>>
    /\ ret = << << <<"https:", "/", "/", "ae01.alicdn.com", "/", "a.jpg">> >> >>

---------------------------------------------------------------------------
(* _scrape_single and the results of a batch *)

MaxBatch == 3

\* a submitted URL: valid is whether it has an /item/<digits> part, and the
\* product_id of the i-th URL is i
QueuedUrl(valid) == [state |-> "queued", valid |-> valid, data |-> <<>>]

PipelineStates == {"scraping", "refining", "categorizing", "saving"}

\* the calls of _scrape_single a worker thread is running
Running(ts) == {i \in 1..Len(ts) : ts[i].state \in PipelineStates}

\* what extract_aliexpress_product can return, as which fields are non-empty
ScrapeData == [title : BOOLEAN, description_text : BOOLEAN]

\* variant: the result is used whatever it holds
NoContent_Never(data) == FALSE

\* not data["title"] and not data["description_text"]
NoContent(data) == ~data.title /\ ~data.description_text

ScrapeResult(i, ok) == [url |-> i, success |-> ok]

\* variant: only the successful results are kept
collect_SuccessOnly(results, r) == IF r.success THEN Append(results, r) ELSE results

\* results.append(future.result())
collect(results, r) == Append(results, r)

InitResults ==
    /\ ScrapeIdle /\ DbIdle
    /\ arg = <<>>
    /\ ret = <<>>
    /\ pc = "scrape"
    /\ \E n \in 1..MaxBatch : \E valid \in [1..n -> BOOLEAN] :
          tasks = [i \in 1..n |-> QueuedUrl(valid[i])]

results_frame == <<pc, arg, txn, resp, scrape_vars>>

\* _scrape_single returns ScrapeResult(success=...) and the endpoint collects it
ReturnResult(i, ok) ==
    /\ tasks' = [tasks EXCEPT ![i].state = "done"]
    /\ ret' = collect(ret, ScrapeResult(i, ok))

\* a pool thread starts _scrape_single: extract_product_id either raises
\* ValueError, which is answered at once, or gives the id and the scrape starts
StartSingle(i) ==
    /\ pc = "scrape"
    /\ tasks[i].state = "queued"
    /\ \A j \in 1..(i - 1) : tasks[j].state # "queued"
    /\ Cardinality(Running(tasks)) < max_workers
    /\ IF tasks[i].valid
       THEN /\ tasks' = [tasks EXCEPT ![i].state = "scraping"]
            /\ UNCHANGED ret
       ELSE ReturnResult(i, FALSE)
    /\ UNCHANGED <<tables, results_frame>>

\* data = extract_aliexpress_product(url), then the test for no content
ScrapeReturns(i) ==
    /\ pc = "scrape"
    /\ tasks[i].state = "scraping"
    /\ \E data \in ScrapeData :
          IF NoContent(data)
          THEN /\ tasks' = [tasks EXCEPT ![i].state = "done", ![i].data = <<data>>]
               /\ ret' = collect(ret, ScrapeResult(i, FALSE))
          ELSE /\ tasks' = [tasks EXCEPT ![i].state = "refining", ![i].data = <<data>>]
               /\ UNCHANGED ret
    /\ UNCHANGED <<tables, results_frame>>

\* refined = refine_with_llm(...)
RefineReturns(i) ==
    /\ pc = "scrape"
    /\ tasks[i].state = "refining"
    /\ tasks' = [tasks EXCEPT ![i].state = "categorizing"]
    /\ UNCHANGED <<ret, tables, results_frame>>

\* category = categorize_product(...)
CategorizeReturns(i) ==
    /\ pc = "scrape"
    /\ tasks[i].state = "categorizing"
    /\ tasks' = [tasks EXCEPT ![i].state = "saving"]
    /\ UNCHANGED <<ret, tables, results_frame>>

\* _upsert commits in its own session and the success result is returned
UpsertReturns(i) ==
    /\ pc = "scrape"
    /\ tasks[i].state = "saving"
    /\ tables' = update_or_add(update_or_add(update_or_add(tables,
                     "fetched", i, "v1"), "refined", i, "v1"), "category", i, "v1")
    /\ ReturnResult(i, TRUE)
    /\ UNCHANGED results_frame

\* variant: the exception leaves _scrape_single, future.result() raises it
\* again in the endpoint and the request ends without a response
StageRaises_Propagates(i) ==
    /\ tasks[i].state \in PipelineStates
    /\ pc' = "crashed"
    /\ UNCHANGED <<tasks, ret, tables, arg, txn, resp, scrape_vars>>

\* the scrape, the refinement, the categorization or _upsert raises: the
\* session is closed without a commit and "except Exception" answers
StageRaises(i) ==
    /\ pc = "scrape"
    /\ tasks[i].state \in PipelineStates
    /\ ReturnResult(i, FALSE)
    /\ UNCHANGED <<tables, results_frame>>

\* ScrapeResponse(total, success, failed, results) once every future is done
ScrapeResponds ==
    /\ pc = "scrape"
    /\ \A i \in 1..Len(tasks) : tasks[i].state = "done"
    /\ pc' = "responded"
    /\ resp' = << [total |-> Len(ret),
                   success |-> Cardinality({k \in 1..Len(ret) : ret[k].success}),
                   failed |-> Cardinality({k \in 1..Len(ret) : ~ret[k].success})] >>
    /\ UNCHANGED <<tasks, ret, tables, arg, txn, scrape_vars>>

NextResults ==
    \/ \E i \in 1..Len(tasks) :
          \/ StartSingle(i)
          \/ ScrapeReturns(i)
          \/ RefineReturns(i)
          \/ CategorizeReturns(i)
          \/ UpsertReturns(i)
          \/ StageRaises(i)
    \/ ScrapeResponds

SpecResults == InitResults /\ [][NextResults]_vars

ResultsFor(i) == {k \in 1..Len(ret) : ret[k].url = i}

\* C23: every finished URL has exactly one result and an unfinished one none,
\* in whatever order the workers finish; the response counts one result per
\* submitted URL and its success and failed counts add up to the total.
C23_OneResultPerUrl ==
    /\ \A i \in 1..Len(tasks) :
          Cardinality(ResultsFor(i)) = IF tasks[i].state = "done" THEN 1 ELSE 0
    /\ \A k \in 1..Len(ret) : ret[k].url \in 1..Len(tasks)
    /\ pc = "responded" =>
          /\ resp[1].total = Len(tasks)
          /\ resp[1].success + resp[1].failed = resp[1].total
          /\ resp[1].success = Cardinality({i \in 1..Len(tasks) :
                                   \E k \in ResultsFor(i) : ret[k].success})

C23_Witness ==
    /\ pc = "responded"
    /\ Len(tasks) = 3
    /\ ret = <<ScrapeResult(3, FALSE), ScrapeResult(1, TRUE), ScrapeResult(2, FALSE)>>
    /\ resp = << [total |-> 3, success |-> 1, failed |-> 2] >>

\* the result that the step has just handed over for URL i
Reported(i, ok) == ret' = Append(ret, ScrapeResult(i, ok))

\* C24: a call of _scrape_single ends only by handing over a result; a URL
\* without a product id is answered success=False with no scrape attempt and
\* no database write; an exception in the scrape, the refinement, the
\* categorization or the save is answered success=False, leaves the other
\* URLs as they are, and never ends the request.
C24_ScrapeSingleAlwaysReports ==
    [][ /\ pc' # "crashed"
        /\ \A i \in 1..Len(tasks) :
              /\ (tasks[i].state # "done" /\ tasks'[i].state = "done") =>
                    (Reported(i, TRUE) \/ Reported(i, FALSE))
              /\ (tasks[i].state = "queued" /\ ~tasks[i].valid /\ tasks'[i] # tasks[i]) =>
                    (tasks'[i].state = "done" /\ Reported(i, FALSE) /\ tables' = tables)
              /\ StageRaises(i) =>
                    /\ Reported(i, FALSE)
                    /\ \A j \in 1..Len(tasks) \ {i} : tasks'[j] = tasks[j]
              /\ ~tasks'[i].valid => tasks'[i].state \in {"queued", "done"}
      ]_vars

C24_Witness ==
    /\ pc = "responded"
    /\ Len(tasks) = 3
    /\ ~tasks[1].valid /\ tasks[2].valid /\ tasks[3].valid
    /\ tasks[2].data # <<>> /\ ~NoContent(tasks[2].data[1])
    /\ ret = <<ScrapeResult(1, FALSE), ScrapeResult(2, FALSE), ScrapeResult(3, TRUE)>>
    /\ NoRowsFor(tables, 1) /\ NoRowsFor(tables, 2) /\ ~NoRowsFor(tables, 3)

\* C25: a scrape that returns the empty result is answered success=False and
\* goes no further: refinement, categorization and the save are reached only
\* with a non-empty title or description, and the tables change only in the
\* save of such a result, for its own product_id.
C25_EmptyResultStopsPipeline ==
    [][ /\ \A i \in 1..Len(tasks) :
              /\ (tasks'[i].data # <<>> /\ ~tasks'[i].data[1].title
                     /\ ~tasks'[i].data[1].description_text) =>
                    /\ tasks'[i].state = "done"
                    /\ NoRowsFor(tables', i)
                    /\ \A k \in 1..Len(ret') : ret'[k].url = i => ~ret'[k].success
              /\ (tasks'[i].state \in {"refining", "categorizing", "saving"}) =>
                    (tasks'[i].data[1].title \/ tasks'[i].data[1].description_text)
        /\ tables' # tables =>
              \E i \in 1..Len(tasks) :
                 /\ tasks[i].state = "saving"
                 /\ tasks[i].data[1].title \/ tasks[i].data[1].description_text
                 /\ \A j \in 1..Len(tasks) \ {i}, tab \in TableNames :
                       RowsOf(tables', tab, j) = RowsOf(tables, tab, j)
      ]_vars

C25_Witness ==
    /\ pc = "responded"
    /\ Len(tasks) = 2
    /\ tasks[1].data = << [title |-> FALSE, description_text |-> FALSE] >>
    /\ tasks[2].data = << [title |-> TRUE, description_text |-> FALSE] >>
    /\ ret = <<ScrapeResult(1, FALSE), ScrapeResult(2, TRUE)>>
    /\ NoRowsFor(tables, 1) /\ ~NoRowsFor(tables, 2)

---------------------------------------------------------------------------
(* Several workers saving the same product_id, each in its own session *)

MaxSameProduct == 2

\* the product_id all the workers save
SharedProduct == 1

\* what the tables can hold for the product before the workers start
RaceTables ==
    LET row == {[product_id |-> SharedProduct, v |-> "v1"]} IN
    { [fetched |-> {}, refined |-> {}, category |-> {}],
      [fetched |-> row, refined |-> {}, category |-> {}],
      [fetched |-> row, refined |-> row, category |-> {}],
      [fetched |-> row, refined |-> row, category |-> row] }

\* what worker w reads: the committed rows, and its own flushed rows when the
\* open write transaction is its own
View(w) == IF txn # <<>> /\ txn[1].holder = w THEN txn[1].work ELSE tables

\* the unit of work of "if row: row.field = ... else: db.add(...)": nothing
\* when the row already holds the values, an UPDATE when it differs, an INSERT
\* when the query found no row
PendingFor(w, tab, v) ==
    LET rows == RowsOf(View(w), tab, SharedProduct) IN
    IF rows = {} THEN << [kind |-> "insert", tab |-> tab, v |-> v] >>
    ELSE IF \A r \in rows : r.v = v THEN <<>>
    ELSE << [kind |-> "update", tab |-> tab, v |-> v] >>

\* variant: a table without primary key or unique constraint on product_id
Violates_Unconstrained(db, op) == FALSE

\* the statement fails: an INSERT of a product_id the table already holds
\* (primary key of product_fetched, unique=True of the other two), or an
\* UPDATE that matches no row
Violates(db, op) ==
    IF op.kind = "insert"
    THEN RowsOf(db, op.tab, SharedProduct) # {}
    ELSE RowsOf(db, op.tab, SharedProduct) = {}

\* one INSERT or UPDATE statement
ExecuteOne(db, op) ==
    IF op.kind = "insert"
    THEN [db EXCEPT ![op.tab] = @ \cup {[product_id |-> SharedProduct, v |-> op.v]}]
    ELSE [db EXCEPT ![op.tab] = {IF r.product_id = SharedProduct
                                 THEN [r EXCEPT !.v = op.v] ELSE r : r \in @}]

\* the statements of a flush, in order, up to the first that fails
RECURSIVE Execute(_, _)
Execute(db, ops) ==
    IF ops = <<>> THEN [ok |-> TRUE, db |-> db]
    ELSE IF Violates(db, Head(ops)) THEN [ok |-> FALSE, db |-> db]
    ELSE Execute(ExecuteOne(db, Head(ops)), Tail(ops))

\* the database lets one connection write at a time
CanWrite(w) == IF txn = <<>> THEN TRUE ELSE txn[1].holder = w

InitRace ==
    /\ ScrapeIdle /\ HelperIdle
    /\ pc = "race"
    /\ tables \in RaceTables
    /\ txn = <<>>
    /\ resp = <<>>
    /\ \E n \in 2..MaxSameProduct : \E v \in [1..n -> Payloads] :
          tasks = [w \in 1..n |-> [state |-> "product", v |-> v[w], pending |-> <<>>]]

race_frame == <<pc, arg, ret, resp, scrape_vars>>

\* step 1 of _upsert up to db.flush()
WorkerProduct(w) ==
    /\ pc = "race"
    /\ tasks[w].state = "product"
    /\ tasks' = [tasks EXCEPT ![w].state = "flush",
                              ![w].pending = PendingFor(w, "fetched", tasks[w].v)]
    /\ UNCHANGED <<tables, txn, race_frame>>

\* "except Exception" of _scrape_single after db.close(): the worker's
\* transaction is rolled back and success=False is returned
Failed(w) ==
    /\ tasks' = [tasks EXCEPT ![w].state = "failure", ![w].pending = <<>>]
    /\ txn' = IF txn # <<>> /\ txn[1].holder = w THEN <<>> ELSE txn
    /\ UNCHANGED tables

\* db.flush(): the pending statements run in the worker's transaction, once
\* no other connection is writing
WorkerFlush(w) ==
    /\ pc = "race"
    /\ tasks[w].state = "flush"
    /\ IF tasks[w].pending = <<>>
       THEN /\ tasks' = [tasks EXCEPT ![w].state = "refined"]
            /\ UNCHANGED <<tables, txn>>
       ELSE /\ CanWrite(w)
            /\ LET done == Execute(View(w), tasks[w].pending) IN
               IF done.ok
               THEN /\ tasks' = [tasks EXCEPT ![w].state = "refined", ![w].pending = <<>>]
                    /\ txn' = << [holder |-> w, work |-> done.db] >>
                    /\ UNCHANGED tables
               ELSE Failed(w)
    /\ UNCHANGED race_frame

\* step 2 of _upsert
WorkerRefined(w) ==
    /\ pc = "race"
    /\ tasks[w].state = "refined"
    /\ tasks' = [tasks EXCEPT ![w].state = "category",
                              ![w].pending = @ \o PendingFor(w, "refined", tasks[w].v)]
    /\ UNCHANGED <<tables, txn, race_frame>>

\* step 3 of _upsert
WorkerCategory(w) ==
    /\ pc = "race"
    /\ tasks[w].state = "category"
    /\ tasks' = [tasks EXCEPT ![w].state = "commit",
                              ![w].pending = @ \o PendingFor(w, "category", tasks[w].v)]
    /\ UNCHANGED <<tables, txn, race_frame>>

\* db.commit(): flush what is pending, then commit; the success result follows
WorkerCommit(w) ==
    /\ pc = "race"
    /\ tasks[w].state = "commit"
    /\ tasks[w].pending # <<>> => CanWrite(w)
    /\ LET done == Execute(View(w), tasks[w].pending) IN
       IF done.ok
       THEN /\ tasks' = [tasks EXCEPT ![w].state = "success", ![w].pending = <<>>]
            /\ tables' = done.db
            /\ txn' = IF txn # <<>> /\ txn[1].holder = w THEN <<>> ELSE txn
       ELSE Failed(w)
    /\ UNCHANGED race_frame

\* any other exception on the way, "database is locked" after the busy
\* timeout included
WorkerRaises(w) ==
    /\ pc = "race"
    /\ tasks[w].state \in {"product", "flush", "refined", "category", "commit"}
    /\ Failed(w)
    /\ UNCHANGED race_frame

NextRace ==
    \E w \in 1..Len(tasks) :
        \/ WorkerProduct(w)
        \/ WorkerFlush(w)
        \/ WorkerRefined(w)
        \/ WorkerCategory(w)
        \/ WorkerCommit(w)
        \/ WorkerRaises(w)

SpecRace == InitRace /\ [][NextRace]_vars

\* C26: however the saves of the workers interleave, no table ever holds more
\* than one row for the product_id, and a worker that has left _upsert has
\* returned a result, success or failure.
C26_ConcurrentUpsertsKeepOneRow ==
    /\ \A tab \in TableNames : Cardinality(RowsOf(tables, tab, SharedProduct)) <= 1
    /\ \A w \in 1..Len(tasks) :
          tasks[w].state \in {"product", "flush", "refined", "category", "commit",
                              "success", "failure"}
    /\ (txn # <<>> => tasks[txn[1].holder].state \in {"refined", "category", "commit"})

C26_Witness ==
    /\ Len(tasks) = 2
    /\ tasks[1].state = "success" /\ tasks[2].state = "failure"
    /\ tasks[1].v = "v1" /\ tasks[2].v = "v2"
    /\ \A tab \in TableNames :
          RowsOf(tables, tab, SharedProduct) = {[product_id |-> SharedProduct, v |-> "v1"]}

---------------------------------------------------------------------------
(* The attempt bound *)

\* C27: whatever the attempts end in, no more than max_retries of them are
\* made, each with at most one session; with max_retries <= 0 no attempt is
\* made, no session is opened, no rotation is requested and the call returns
\* the empty result.
C27_AttemptsBoundedByMaxRetries ==
    /\ Count(log, "attempt") = attempt
    /\ attempt <= (IF max_retries > 0 THEN max_retries ELSE 0)
    /\ Len(sessions) <= attempt
    /\ Len(outcomes) <= attempt
    /\ max_retries <= 0 =>
          /\ pc \in {"loop", "done"}
          /\ sessions = <<>>
          /\ Count(log, "open") = 0
          /\ Count(log, "rotate") = 0
          /\ pc = "done" => (status = "returned" /\ result = <<empty_result>>)

C27_Witness ==
    /\ pc = "done"
    /\ max_retries <= 0
    /\ status = "returned"
    /\ result = <<empty_result>>
    /\ log = <<"return">>

====
